---- MODULE Spec2Model ----
(***************************************************************************)
(* The CV screening service: the rule engine of api/bucketer.py            *)
(* (rule_signals, rule_score, bucket_from_score) and the /parse handler of *)
(* api/main.py over the tables of api/db.py.                               *)
(*                                                                         *)
(* Python values are tagged records: [t |-> "none"], [t |-> "str", v],     *)
(* [t |-> "list", v], [t |-> "dict", v], [t |-> "int", v], [t |-> "bool",  *)
(* v].  A dict is a function from the keys it holds; a key it does not     *)
(* hold is outside its DOMAIN.  Text is a TLA+ string, matched character   *)
(* by character as Python's `in` does.                                     *)
(***************************************************************************)
EXTENDS Integers, Sequences, FiniteSets, TLC

VARIABLES
    call,          \* the last call of the rule engine: [fn, arg, ret]
    candidates,    \* table candidates: set of rows
    cv_extracts,   \* table cv_extracts: set of rows
    evaluations,   \* table evaluations: set of rows
    seqs,          \* the SERIAL sequences of the three tables
    txAborted,     \* the shared connection sits in a failed transaction
    autocommit,    \* the mode the shared connection was opened in
    nreq,          \* number of /parse requests served
    last           \* the last /parse request: [upload, reply, resp, log] and
                   \* the candidates and evaluations rows it found

vars ==
    <<call, candidates, cv_extracts, evaluations, seqs, txAborted, autocommit, nreq,
      last>>

bucketerVars == <<call>>
serviceVars ==
    <<candidates, cv_extracts, evaluations, seqs, txAborted, autocommit, nreq, last>>

-----------------------------------------------------------------------------
(* Python values *)

PyNone == [t |-> "none"]
PyStr(s) == [t |-> "str", v |-> s]
PyList(s) == [t |-> "list", v |-> s]
PyDict(f) == [t |-> "dict", v |-> f]
PyInt(n) == [t |-> "int", v |-> n]
PyBool(b) == [t |-> "bool", v |-> b]

\* The result of a call: a returned value or a raised exception.
Ret(v) == [ok |-> TRUE, v |-> v]
Raise(e) == [ok |-> FALSE, exc |-> e]

\* bool(x) of the values above
Truthy(x) ==
    CASE x.t = "none" -> FALSE
      [] x.t = "str" -> x.v # ""
      [] x.t = "list" -> Len(x.v) > 0
      [] x.t = "dict" -> DOMAIN x.v # {}
      [] x.t = "int" -> x.v # 0
      [] x.t = "bool" -> x.v

\* d.get(k, default)
DictGet(d, k, default) == IF k \in DOMAIN d THEN d[k] ELSE default

-----------------------------------------------------------------------------
(* str.lower() and the `in` operator on text *)

UpperToLower ==
    [c \in {"A","B","C","D","E","F","G","H","I","J","K","L","M",
            "N","O","P","Q","R","S","T","U","V","W","X","Y","Z"} |->
       CASE c = "A" -> "a" [] c = "B" -> "b" [] c = "C" -> "c" [] c = "D" -> "d"
         [] c = "E" -> "e" [] c = "F" -> "f" [] c = "G" -> "g" [] c = "H" -> "h"
         [] c = "I" -> "i" [] c = "J" -> "j" [] c = "K" -> "k" [] c = "L" -> "l"
         [] c = "M" -> "m" [] c = "N" -> "n" [] c = "O" -> "o" [] c = "P" -> "p"
         [] c = "Q" -> "q" [] c = "R" -> "r" [] c = "S" -> "s" [] c = "T" -> "t"
         [] c = "U" -> "u" [] c = "V" -> "v" [] c = "W" -> "w" [] c = "X" -> "x"
         [] c = "Y" -> "y" [] c = "Z" -> "z"]

LowerChar(c) == IF c \in DOMAIN UpperToLower THEN UpperToLower[c] ELSE c

\* The characters i..j of s in lower case, halving the range so that a long
\* text does not nest the evaluation as deep as it is long.
RECURSIVE LowerBetween(_, _, _)
LowerBetween(s, i, j) ==
    IF i > j THEN ""
    ELSE IF i = j THEN LowerChar(SubSeq(s, i, i))
    ELSE LET mid == (i + j) \div 2
         IN  LowerBetween(s, i, mid) \o LowerBetween(s, mid + 1, j)

\* s.lower()
Lower(s) == LowerBetween(s, 1, Len(s))

\* k in text   (k is never empty here)
In(k, text) ==
    \E i \in 1 .. (Len(text) - Len(k) + 1) : SubSeq(text, i, i + Len(k) - 1) = k

-----------------------------------------------------------------------------
(* api/bucketer.py *)

ML_KEYWORDS ==
    {"machine learning", "deep learning", "neural network", "cnn", "rnn",
     "transformer", "llm", "pytorch", "tensorflow", "xgboost", "lightgbm"}

GENAI_KEYWORDS == {"genai", "rag", "langchain", "openai", "huggingface", "gpt"}

DEPLOY_KEYWORDS ==
    {"fastapi", "flask", "streamlit", "docker", "deployment", "rest api",
     "api endpoint"}

AUTOMATION_KEYWORDS == {"automation", "rpa", "workflow", "n8n", "power automate"}

degree_patterns ==
    {"m.sc artificial intelligence", "msc artificial intelligence",
     "b.tech artificial intelligence", "btech artificial intelligence",
     "artificial intelligence & machine learning",
     "artificial intelligence and machine learning"}

keyword_match(text, keywords) ==
    LET lowered == Lower(text) IN \E k \in keywords : In(k, lowered)

detect_ai_degree(text) ==
    LET lowered == Lower(text) IN \E p \in degree_patterns : In(p, lowered)

detect_github(text) ==
    LET lowered == Lower(text)
    IN  \/ In("github.com", lowered)
        \/ In("github/", lowered)
        \/ In("github :", lowered)
        \/ In("github -", lowered)

SignalKeys ==
    {"has_github", "has_python", "has_ml", "has_genai", "has_deployment",
     "has_automation", "has_ai_degree"}

\* rule_signals_from_text as the revision before has_automation was added
rule_signals_from_text_six(raw_text) ==
    LET text == Lower(raw_text)
    IN  [has_github |-> detect_github(text),
         has_python |-> In("python", text),
         has_ml |-> keyword_match(text, ML_KEYWORDS),
         has_genai |-> keyword_match(text, GENAI_KEYWORDS),
         has_deployment |-> keyword_match(text, DEPLOY_KEYWORDS),
         has_ai_degree |-> detect_ai_degree(text)]

rule_signals_from_text(raw_text) ==
    LET text == Lower(raw_text)
    IN  [has_github |-> detect_github(text),
         has_python |-> In("python", text),
         has_ml |-> keyword_match(text, ML_KEYWORDS),
         has_genai |-> keyword_match(text, GENAI_KEYWORDS),
         has_deployment |-> keyword_match(text, DEPLOY_KEYWORDS),
         has_automation |-> keyword_match(text, AUTOMATION_KEYWORDS),
         has_ai_degree |-> detect_ai_degree(text)]

\* The items a `for` loop or str.join draws from x, or a TypeError when x is
\* not iterable.  A str yields its characters, a list its items.
RECURSIVE CharsFrom(_, _)
CharsFrom(s, i) ==
    IF i > Len(s) THEN <<>> ELSE <<PyStr(SubSeq(s, i, i))>> \o CharsFrom(s, i + 1)

Iterate(x) ==
    CASE x.t = "list" -> Ret(x.v)
      [] x.t = "str" -> Ret(CharsFrom(x.v, 1))
      [] x.t \in {"none", "int", "bool"} -> Raise("TypeError")

RECURSIVE JoinFrom(_, _, _)
JoinFrom(sep, items, i) ==
    IF i > Len(items) THEN ""
    ELSE (IF i = 1 THEN "" ELSE sep) \o items[i].v \o JoinFrom(sep, items, i + 1)

\* sep.join(x): TypeError unless x is iterable and every item is a str
Join(sep, x) ==
    LET it == Iterate(x)
    IN  IF ~it.ok THEN it
        ELSE IF \E i \in 1 .. Len(it.v) : it.v[i].t # "str" THEN Raise("TypeError")
        ELSE Ret(JoinFrom(sep, it.v, 1))

\* str(x)
Str(x) ==
    CASE x.t = "str" -> x.v
      [] x.t = "none" -> "None"
      [] x.t = "bool" -> (IF x.v THEN "True" ELSE "False")
      [] x.t = "int" -> ToString(x.v)

\* " " + x: TypeError unless x is a str
SpacePlus(x) == IF x.t = "str" THEN Ret(" " \o x.v) ELSE Raise("TypeError")

\* One turn of the loop over projects (bucketer.py 142-147): the text the item
\* p appends to projects_text.
ProjectText(p) ==
    CASE p.t = "dict" ->
           LET title == SpacePlus(DictGet(p.v, "title", PyStr("")))
               descr == SpacePlus(DictGet(p.v, "description", PyStr("")))
           IN  IF ~title.ok THEN title
               ELSE IF ~descr.ok THEN descr
               ELSE Ret(title.v \o descr.v)
      [] p.t = "str" -> Ret(" " \o p.v)
      [] OTHER -> Ret("")

RECURSIVE ProjectsTextFrom(_, _)
ProjectsTextFrom(items, i) ==
    IF i > Len(items) THEN Ret("")
    ELSE LET one == ProjectText(items[i])
         IN  IF ~one.ok THEN one
             ELSE LET rest == ProjectsTextFrom(items, i + 1)
                  IN  IF ~rest.ok THEN rest ELSE Ret(one.v \o rest.v)

\* The text_blob rule_signals builds from a dict (bucketer.py 137-151).
TextBlob(d) ==
    LET skills == Join(" ", DictGet(d, "skills", PyList(<<>>)))
        projects == Iterate(DictGet(d, "projects", PyList(<<>>)))
        projects_text == IF projects.ok THEN ProjectsTextFrom(projects.v, 1)
                         ELSE projects
        education == Str(DictGet(d, "education", PyStr("")))
    IN  IF ~skills.ok THEN skills
        ELSE IF ~projects_text.ok THEN projects_text
        ELSE Ret(skills.v \o " " \o projects_text.v \o " " \o education)

rule_signals(data_or_text) ==
    IF data_or_text.t = "str" THEN Ret(rule_signals_from_text(data_or_text.v))
    ELSE IF data_or_text.t = "dict"
         THEN LET text_blob == TextBlob(data_or_text.v)
              IN  IF ~text_blob.ok THEN text_blob
                  ELSE Ret(rule_signals_from_text(text_blob.v))
         ELSE Ret(rule_signals_from_text(""))

weights ==
    [has_github |-> 1, has_python |-> 1, has_ml |-> 2, has_genai |-> 2,
     has_deployment |-> 1, has_automation |-> 1, has_ai_degree |-> 2]

RECURSIVE ScoreOver(_, _)
ScoreOver(signals, keys) ==
    IF keys = {} THEN 0
    ELSE LET key == CHOOSE k \in keys : TRUE
         IN  (IF signals[key] THEN DictGet(weights, key, 0) ELSE 0)
             + ScoreOver(signals, keys \ {key})

\* rule_score counting every true signal once, whatever its key
rule_score_unweighted(signals) == Cardinality({k \in DOMAIN signals : signals[k]})

rule_score(signals) == ScoreOver(signals, DOMAIN signals)

\* bucket_from_score with a strict comparison at the upper threshold
bucket_from_score_strict(score) ==
    IF score > 7 THEN "Selected"
    ELSE IF score >= 4 THEN "Review"
    ELSE "Rejected"

\* bucket_from_score with the thresholds of the 9-point weight table
bucket_from_score_nine(score) ==
    IF score >= 6 THEN "Selected"
    ELSE IF score >= 3 THEN "Review"
    ELSE "Rejected"

bucket_from_score(score) ==
    IF score >= 7 THEN "Selected"
    ELSE IF score >= 4 THEN "Review"
    ELSE "Rejected"

-----------------------------------------------------------------------------
(* The inputs the rule engine is called with *)

\* Raw CV texts
RawTexts ==
    <<"",
      "python docker github.com/alice",
      "pytorch m.sc artificial intelligence github.com/bob",
      "transformer langchain fastapi automation github.com python m.sc artificial intelligence",
      "PYTHON",
      "python",
      "falcnn",
      "attended an AI workshop",
      "GitHub - alice, Power Automate",
      "B.Tech Artificial Intelligence, REST API">>

\* Values that are neither a str nor a dict
OtherInputs == <<PyNone, PyInt(42), PyBool(TRUE), PyList(<<PyStr("python")>>)>>

\* The values a structured record may hold under each of its fields.
SkillsOpts ==
    <<PyNone,
      PyList(<<>>),
      PyList(<<PyStr("Python"), PyStr("PyTorch")>>),
      PyList(<<PyStr("machine"), PyStr("learning"), PyStr("github.com/alice")>>),
      PyList(<<PyStr("MSc Artificial Intelligence")>>),
      PyStr("rag")>>

ProjectsOpts ==
    <<PyNone,
      PyList(<<>>),
      PyList(<<PyStr("Docker image"), PyStr("n8n deep")>>),
      PyList(<<PyDict([title |-> PyStr("RAG bot"),
                       description |-> PyStr("artificial intelligence and machine learning")])>>),
      PyList(<<PyDict([title |-> PyStr("deep")]), PyInt(7)>>),
      PyList(<<PyDict([title |-> PyNone, description |-> PyStr("flask")])>>)>>

EducationOpts ==
    <<PyNone,
      PyStr(""),
      PyStr("attended an AI workshop"),
      PyStr("M.Sc Artificial Intelligence"),
      PyStr("learning, B.Com")>>

GithubOpts ==
    <<PyNone,
      PyStr(""),
      PyStr("https://github.com/alice"),
      PyBool(TRUE),
      PyBool(FALSE)>>

Fields == {"skills", "projects", "education", "github"}

FieldOpts ==
    [skills |-> SkillsOpts, projects |-> ProjectsOpts,
     education |-> EducationOpts, github |-> GithubOpts]

\* The record holding, under each field k, the idx[k]-th value of FieldOpts[k];
\* idx[k] = 0 leaves the key out.
Record(idx) ==
    PyDict([k \in {f \in Fields : idx[f] > 0} |-> FieldOpts[k][idx[k]]])

RecordIdx == [Fields -> 0 .. 6]

RecordInputs ==
    {idx \in RecordIdx : \A k \in Fields : idx[k] <= Len(FieldOpts[k])}

\* Signal mappings: any keys of the table, and one outside it
MappingKeys == SignalKeys \cup {"has_other"}

\* The integer scores bucket_from_score is called with: -ScoreBound .. ScoreBound
ScoreBound == 12

-----------------------------------------------------------------------------
(* The calls of the rule engine: each run makes one call *)

\* A call that has not returned yet
Pending == [ok |-> FALSE, exc |-> "pending"]

CallRuleSignals ==
    /\ call.fn = "rule_signals"
    /\ call.ret = Pending
    /\ call' = [call EXCEPT !.ret = rule_signals(call.arg)]
    /\ UNCHANGED serviceVars

CallRuleScore ==
    /\ call.fn = "rule_score"
    /\ call.ret = Pending
    /\ call' = [call EXCEPT !.ret = Ret(rule_score(call.arg))]
    /\ UNCHANGED serviceVars

CallBucketFromScore ==
    /\ call.fn = "bucket_from_score"
    /\ call.ret = Pending
    /\ call' = [call EXCEPT !.ret = Ret(bucket_from_score(call.arg))]
    /\ UNCHANGED serviceVars

NoCall == [fn |-> "none", arg |-> PyNone, ret |-> Ret(PyNone)]

-----------------------------------------------------------------------------
(* api/db.py: the tables and the shared connection *)

\* The database as the handlers see it through the one shared cursor.
Db ==
    [candidates |-> candidates, cv_extracts |-> cv_extracts,
     evaluations |-> evaluations, seqs |-> seqs, txAborted |-> txAborted]

EmptyDb ==
    [candidates |-> {}, cv_extracts |-> {}, evaluations |-> {},
     seqs |-> [candidates |-> 1, cv_extracts |-> 1, evaluations |-> 1],
     txAborted |-> FALSE]

\* nextval of a table's SERIAL id: the value is consumed whether or not the
\* INSERT that drew it stores a row.
NextVal(db, table) == [db EXCEPT !.seqs[table] = @ + 1]

\* A statement that fails leaves the connection's transaction aborted until it
\* is rolled back, unless the connection commits each statement by itself.
Aborted(db) == [db EXCEPT !.txAborted = ~autocommit]

\* ON CONFLICT arbitrated by the file name instead of the content hash
HashConflictByName(rows, row) == \E r \in rows : r.cv_file_name = row.cv_file_name

\* candidates.file_hash TEXT UNIQUE: the arbiter of ON CONFLICT (file_hash)
HashConflict(rows, row) == \E r \in rows : r.file_hash = row.file_hash

\* candidates.primary_email TEXT UNIQUE: NULLs never conflict
EmailConflict(rows, row) ==
    /\ row.primary_email.t # "none"
    /\ \E r \in rows : r.primary_email.t # "none" /\ r.primary_email.v = row.primary_email.v

-----------------------------------------------------------------------------
(* api/main.py: what a /parse request meets upstream *)

\* hashlib.md5(...).hexdigest() on the contents and file names that occur:
\* distinct inputs may share a digest.
Md5(x) ==
    CASE x = "pdf-alice" -> "h1"
      [] x = "pdf-alice-v2" -> "h2"
      [] x = "pdf-bob-crafted" -> "h2"
      [] x = "pdf-broken" -> "h4"
      [] x = "alice.pdf" -> "f1"
      [] x = "bob.pdf" -> "f2"
      [] x = "scan.pdf" -> "f3"

\* The uploads: a file name and the bytes of the file.
Uploads ==
    <<[filename |-> "alice.pdf", content |-> "pdf-alice"],
      [filename |-> "alice.pdf", content |-> "pdf-alice-v2"],
      [filename |-> "bob.pdf", content |-> "pdf-bob-crafted"],
      [filename |-> "scan.pdf", content |-> "pdf-broken"]>>

\* fitz.open(path) and the pages' text: the text of a readable PDF, an
\* exception for one that cannot be opened.
extract_text(content) ==
    CASE content = "pdf-alice" -> Ret("Alice alice@x.io PyTorch")
      [] content = "pdf-alice-v2" -> Ret("Alice alice@x.io, bob@x.io Docker")
      [] content = "pdf-bob-crafted" -> Ret("Bob bob@x.io n8n")
      [] content = "pdf-broken" -> Raise("FileDataError")

\* The candidate objects the language model's answer may spell out.
LlmData ==
    <<[name |-> PyStr("Alice"), email |-> PyStr("alice@x.io"),
       github |-> PyStr("https://github.com/alice"),
       skills |-> PyList(<<PyStr("Python"), PyStr("PyTorch")>>),
       projects |-> PyList(<<PyDict([title |-> PyStr("RAG bot"),
                                     description |-> PyStr("FastAPI")])>>),
       education |-> PyStr("M.Sc Artificial Intelligence")],
      [name |-> PyStr("Bob"), email |-> PyStr("bob@x.io"),
       skills |-> PyList(<<PyStr("LLM"), PyStr("Docker"), PyStr("Python")>>),
       projects |-> PyList(<<>>), education |-> PyStr("B.Com")],
      [name |-> PyStr("Alice"), email |-> PyStr("alice@x.io"),
       skills |-> PyList(<<>>)],
      [name |-> PyStr("Eve"), email |-> PyStr("eve-at-x.io"), projects |-> PyNone],
      [email |-> PyInt(5)],
      [name |-> PyNone, email |-> PyStr("")]>>

\* The content of the model's message, cut into the pieces call_mistral and
\* json.loads tell apart: "{" and "}", other text outside or inside the
\* braces, and the members of an object (d: the index of LlmData they spell).
Tok(c) == [c |-> c, d |-> 0]
Members(d) == [c |-> "members", d |-> d]

\* What the request to the language model comes back with.
LlmReplies ==
    <<[status |-> 500, choices |-> FALSE, content |-> <<>>],
      [status |-> 200, choices |-> FALSE, content |-> <<>>],
      [status |-> 200, choices |-> TRUE, content |-> <<Tok("text")>>],
      [status |-> 200, choices |-> TRUE, content |-> <<Tok("{"), Members(1)>>],
      [status |-> 200, choices |-> TRUE,
       content |-> <<Tok("}"), Tok("text"), Tok("{"), Members(1)>>],
      [status |-> 200, choices |-> TRUE, content |-> <<Tok("{"), Tok("text"), Tok("}")>>],
      [status |-> 200, choices |-> TRUE,
       content |-> <<Tok("{"), Members(2), Tok("}"), Tok("text"), Tok("}")>>],
      [status |-> 200, choices |-> TRUE,
       content |-> <<Tok("text"), Tok("{"), Members(1), Tok("}"), Tok("text")>>],
      [status |-> 200, choices |-> TRUE, content |-> <<Tok("{"), Members(2), Tok("}")>>],
      [status |-> 200, choices |-> TRUE, content |-> <<Tok("{"), Members(3), Tok("}")>>],
      [status |-> 200, choices |-> TRUE, content |-> <<Tok("{"), Members(4), Tok("}")>>],
      [status |-> 200, choices |-> TRUE, content |-> <<Tok("{"), Members(5), Tok("}")>>],
      [status |-> 200, choices |-> TRUE, content |-> <<Tok("{"), Members(6), Tok("}")>>]>>

\* raw.find(c): the 0-based index of the first c, or -1
Find(raw, c) ==
    IF \E i \in 1 .. Len(raw) : raw[i].c = c
    THEN (CHOOSE i \in 1 .. Len(raw) :
              raw[i].c = c /\ \A j \in 1 .. (i - 1) : raw[j].c # c) - 1
    ELSE -1

\* raw.rfind(c): the 0-based index of the last c, or -1
RFind(raw, c) ==
    IF \E i \in 1 .. Len(raw) : raw[i].c = c
    THEN (CHOOSE i \in 1 .. Len(raw) :
              raw[i].c = c /\ \A j \in (i + 1) .. Len(raw) : raw[j].c # c) - 1
    ELSE -1

\* raw[start:end] for 0 <= start
Slice(raw, start, end) == SubSeq(raw, start + 1, end)

call_mistral(reply) ==
    IF reply.status # 200 THEN Raise("Mistral API error")
    ELSE IF ~reply.choices THEN Raise("Invalid Mistral response")
    ELSE LET raw == reply.content
             start == Find(raw, "{")
             end == RFind(raw, "}") + 1
         IN  IF start = -1 THEN Raise("No JSON returned")
             ELSE Ret(Slice(raw, start, end))

\* json.loads with a decode error swallowed into an empty object
json_loads_lenient(structured) ==
    IF /\ Len(structured) = 3
       /\ structured[1].c = "{"
       /\ structured[2].c = "members"
       /\ structured[3].c = "}"
    THEN Ret(LlmData[structured[2].d])
    ELSE Ret([k \in {} |-> PyNone])

\* json.loads(structured) of a text that starts with "{": the object, when the
\* text is one object and nothing else.
json_loads(structured) ==
    IF /\ Len(structured) = 3
       /\ structured[1].c = "{"
       /\ structured[2].c = "members"
       /\ structured[3].c = "}"
    THEN Ret(LlmData[structured[2].d])
    ELSE Raise("JSONDecodeError")

\* re.match(r"^[^@]+@[^@]+\.[^@]+$", s)
RECURSIVE CountFrom(_, _, _)
CountFrom(s, c, i) ==
    IF i > Len(s) THEN 0
    ELSE (IF SubSeq(s, i, i) = c THEN 1 ELSE 0) + CountFrom(s, c, i + 1)

EMAIL_REGEX(s) ==
    /\ CountFrom(s, "@", 1) = 1
    /\ \E at \in 2 .. Len(s) :
          /\ SubSeq(s, at, at) = "@"
          /\ \E dot \in (at + 2) .. (Len(s) - 1) : SubSeq(s, dot, dot) = "."

\* main.py 171-179: the email that reaches the INSERT, or the TypeError of
\* re.match on a value that is not a str.
CheckedEmail(data, raw_text) ==
    LET email == DictGet(data, "email", PyNone)
    IN  IF ~Truthy(email) THEN Ret(email)
        ELSE IF email.t # "str" THEN Raise("TypeError")
        ELSE IF ~EMAIL_REGEX(email.v) THEN Ret(PyNone)
        ELSE IF ~In(email.v, raw_text) THEN Ret(PyNone)
        ELSE Ret(email)

-----------------------------------------------------------------------------
(* api/main.py: the /parse handler *)

\* The confidence is kept in hundredths: round(min(1.0, score / max_score), 2)
max_score == 10

Confidence(score) ==
    LET hundredths == (score * 100) \div max_score
    IN  IF hundredths > 100 THEN 100 ELSE hundredths

\* except Exception as e: raise HTTPException(status_code=500, detail=str(e))
Fail(db, log, detail) ==
    [db |-> db, resp |-> [status |-> 500, detail |-> detail], log |-> log]

\* parse_bucketing as the revision without the DELETE of the old evaluation
parse_bucketing_append(db, log, cid, data) ==
    LET signals == rule_signals(PyDict(data))
    IN  IF ~signals.ok THEN Fail(db, log \o <<"rule_signals">>, signals.exc)
        ELSE
        LET score == rule_score(signals.v)
            bucket == bucket_from_score(score)
            confidence == Confidence(score)
            row == [id |-> db.seqs.evaluations, candidate_id |-> cid,
                    bucket |-> bucket, confidence |-> confidence]
            processed == {IF c.id = cid THEN [c EXCEPT !.status = "processed"] ELSE c :
                             c \in db.candidates}
            db1 == [NextVal(db, "evaluations") EXCEPT
                        !.evaluations = @ \cup {row}, !.candidates = processed]
        IN  [db |-> db1,
             resp |-> [status |-> 200, candidate_id |-> cid],
             log |-> log \o <<"rule_signals", "rule_score", "bucket_from_score",
                              "insert_evaluation">>]

\* main.py 252-292: the scoring of the candidate cid and its evaluation row.
parse_bucketing(db, log, cid, data) ==
    LET signals == rule_signals(PyDict(data))
    IN  IF ~signals.ok THEN Fail(db, log \o <<"rule_signals">>, signals.exc)
        ELSE
        LET score == rule_score(signals.v)
            bucket == bucket_from_score(score)
            confidence == Confidence(score)
            kept == {e \in db.evaluations : e.candidate_id # cid}
            row == [id |-> db.seqs.evaluations, candidate_id |-> cid,
                    bucket |-> bucket, confidence |-> confidence]
            processed == {IF c.id = cid THEN [c EXCEPT !.status = "processed"] ELSE c :
                             c \in db.candidates}
            db1 == [NextVal(db, "evaluations") EXCEPT
                        !.evaluations = kept \cup {row}, !.candidates = processed]
        IN  [db |-> db1,
             resp |-> [status |-> 200, candidate_id |-> cid],
             log |-> log \o <<"rule_signals", "rule_score", "bucket_from_score",
                              "insert_evaluation">>]

\* main.py 234-249: the next version of the candidate's extract is stored.
parse_extract(db, log, cid, raw_text, structured, data) ==
    LET versions == {x.version : x \in {e \in db.cv_extracts : e.candidate_id = cid}}
        version == IF versions # {}
                   THEN (CHOOSE v \in versions : \A w \in versions : w <= v) + 1
                   ELSE 1
        row == [id |-> db.seqs.cv_extracts, candidate_id |-> cid,
                raw_text |-> raw_text, extracted_json |-> structured,
                version |-> version]
        db1 == [NextVal(db, "cv_extracts") EXCEPT !.cv_extracts = @ \cup {row}]
    IN  parse_bucketing(db1, log \o <<"insert_extract">>, cid, data)

\* main.py 213-231: the id of the candidate the request is about.
parse_lookup(db, log, file_hash, email, raw_text, structured, data) ==
    LET byHash == {c \in db.candidates : c.file_hash = file_hash}
        byEmail == {c \in db.candidates :
                       /\ email.t # "none"
                       /\ c.primary_email.t # "none"
                       /\ c.primary_email.v = email.v}
    IN  IF byHash # {}
        THEN parse_extract(db, log, (CHOOSE c \in byHash : TRUE).id,
                           raw_text, structured, data)
        ELSE IF byEmail # {}
        THEN parse_extract(db, log, (CHOOSE c \in byEmail : TRUE).id,
                           raw_text, structured, data)
        ELSE Fail(db, log, "Candidate lookup failed")

\* main.py 192-211: INSERT INTO candidates ... ON CONFLICT (file_hash) DO NOTHING
parse_insert(db, log, path, file_hash, email, raw_text, structured, data) ==
    LET row == [id |-> db.seqs.candidates,
                name |-> DictGet(data, "name", PyNone),
                primary_email |-> email,
                cv_file_name |-> path,
                file_hash |-> file_hash,
                status |-> "processed"]
        db1 == NextVal(db, "candidates")
        log1 == log \o <<"insert_candidate">>
    IN  IF db.txAborted THEN Fail(db, log1, "InFailedSqlTransaction")
        ELSE IF HashConflict(db.candidates, row)
        THEN parse_lookup(db1, log1, file_hash, email, raw_text, structured, data)
        ELSE IF EmailConflict(db.candidates, row)
        THEN Fail(Aborted(db1), log1, "UniqueViolation")
        ELSE parse_lookup([db1 EXCEPT !.candidates = @ \cup {row}], log1,
                          file_hash, email, raw_text, structured, data)

\* main.py 148-295: the whole handler, for an upload and the reply the
\* language model gives in this request.
parse(db, upload, reply) ==
    LET path == "temp_" \o Md5(upload.filename) \o ".pdf"
        file_hash == Md5(upload.content)
        raw_text == extract_text(upload.content)
    IN  IF ~raw_text.ok THEN Fail(db, <<"extract_text">>, raw_text.exc)
        ELSE
        LET structured == call_mistral(reply)
            log1 == <<"extract_text", "call_mistral">>
        IN  IF ~structured.ok THEN Fail(db, log1, structured.exc)
            ELSE IF structured.v = <<>> THEN Fail(db, log1, "Empty response from Mistral")
            ELSE
            LET data == json_loads(structured.v)
                log2 == log1 \o <<"json.loads">>
            IN  IF ~data.ok THEN Fail(db, log2, data.exc)
                ELSE
                LET email == CheckedEmail(data.v, raw_text.v)
                IN  IF ~email.ok THEN Fail(db, log2, email.exc)
                    ELSE parse_insert(db, log2, path, file_hash, email.v,
                                      raw_text.v, structured.v, data.v)

\* The number of /parse requests a run serves
MaxRequests == 2

Parse(u, r) ==
    /\ nreq < MaxRequests
    /\ \E run \in {parse(Db, Uploads[u], LlmReplies[r])} :
          /\ candidates' = run.db.candidates
          /\ cv_extracts' = run.db.cv_extracts
          /\ evaluations' = run.db.evaluations
          /\ seqs' = run.db.seqs
          /\ txAborted' = run.db.txAborted
          /\ last' = [upload |-> u, reply |-> r, resp |-> run.resp, log |-> run.log,
                      before |-> candidates, evalsBefore |-> evaluations]
    /\ nreq' = nreq + 1
    /\ UNCHANGED <<call, autocommit>>

NoRequest ==
    [upload |-> 0, reply |-> 0, resp |-> [status |-> 0], log |-> <<>>, before |-> {},
     evalsBefore |-> {}]

\* main.py 457-468: of each candidate's evaluations only the row with the
\* least id is kept.  On a connection left in a failed transaction the DELETE
\* raises and nothing changes.
cleanup_duplicates(db) ==
    IF db.txAborted THEN db
    ELSE [db EXCEPT !.evaluations =
              {e \in @ : \A f \in @ : f.candidate_id = e.candidate_id => e.id <= f.id}]

CleanupDuplicates ==
    /\ evaluations' = cleanup_duplicates(Db).evaluations
    /\ UNCHANGED <<call, candidates, cv_extracts, seqs, txAborted, autocommit, nreq, last>>

-----------------------------------------------------------------------------
(* Specifications *)

IdleService ==
    /\ candidates = EmptyDb.candidates
    /\ cv_extracts = EmptyDb.cv_extracts
    /\ evaluations = EmptyDb.evaluations
    /\ seqs = EmptyDb.seqs
    /\ txAborted = EmptyDb.txAborted
    /\ nreq = 0
    /\ last = NoRequest

\* The rule engine alone: the call to make is drawn from the inputs above.
InitBucketer ==
    /\ \/ \E i \in 1 .. Len(RawTexts) :
             call = [fn |-> "rule_signals", arg |-> PyStr(RawTexts[i]), ret |-> Pending]
       \/ \E idx \in RecordInputs :
             call = [fn |-> "rule_signals", arg |-> Record(idx), ret |-> Pending]
       \/ \E i \in 1 .. Len(OtherInputs) :
             call = [fn |-> "rule_signals", arg |-> OtherInputs[i], ret |-> Pending]
       \/ \E keys \in SUBSET MappingKeys : \E signals \in [keys -> BOOLEAN] :
             call = [fn |-> "rule_score", arg |-> signals, ret |-> Pending]
       \/ \E score \in (0 - ScoreBound) .. ScoreBound :
             call = [fn |-> "bucket_from_score", arg |-> score, ret |-> Pending]
    /\ autocommit = FALSE
    /\ IdleService

NextBucketer ==
    \/ CallRuleSignals
    \/ CallRuleScore
    \/ CallBucketFromScore

SpecBucketer == InitBucketer /\ [][NextBucketer]_vars

\* The service: /parse requests against a fresh database.
Init ==
    /\ call = NoCall
    /\ autocommit \in BOOLEAN
    /\ IdleService

Next ==
    \/ \E u \in 1 .. Len(Uploads) : \E r \in 1 .. Len(LlmReplies) : Parse(u, r)
    \/ CleanupDuplicates

Spec == Init /\ [][Next]_vars

-----------------------------------------------------------------------------
(* The rule engine: bucket_from_score and rule_score *)

Returned(fn) == call.fn = fn /\ call.ret # Pending

Buckets == {"Selected", "Review", "Rejected"}

\* C1: for every integer score, bucket_from_score returns one of Selected,
\* Review, Rejected; Selected exactly when score >= 7, Review exactly when
\* 4 <= score < 7.
C1_BucketThresholds ==
    Returned("bucket_from_score") =>
        /\ call.ret.ok
        /\ call.ret.v \in Buckets
        /\ (call.ret.v = "Selected") <=> (call.arg >= 7)
        /\ (call.ret.v = "Review") <=> (4 <= call.arg /\ call.arg < 7)

C1_Witness ==
    /\ Returned("bucket_from_score")
    /\ call.arg = 7
    /\ call.ret.v = "Selected"

\* The weight a key adds to the score under the canonical table
CanonicalWeight(signals, key, weight) ==
    IF key \in DOMAIN signals /\ signals[key] THEN weight ELSE 0

CanonicalScore(signals) ==
    CanonicalWeight(signals, "has_github", 1)
    + CanonicalWeight(signals, "has_python", 1)
    + CanonicalWeight(signals, "has_ml", 2)
    + CanonicalWeight(signals, "has_genai", 2)
    + CanonicalWeight(signals, "has_deployment", 1)
    + CanonicalWeight(signals, "has_automation", 1)
    + CanonicalWeight(signals, "has_ai_degree", 2)

\* C2: rule_score returns the sum of the canonical weights of the keys whose
\* value is true; a key outside the table adds nothing; the result is an
\* integer in 0..10.
C2_RuleScoreIsWeightedSum ==
    Returned("rule_score") =>
        /\ call.ret.ok
        /\ call.ret.v = CanonicalScore(call.arg)
        /\ call.ret.v \in 0 .. 10

C2_Witness ==
    /\ Returned("rule_score")
    /\ DOMAIN call.arg = MappingKeys
    /\ \A k \in MappingKeys : call.arg[k]
    /\ call.ret.v = 10

\* C6 as stated: every score below 6 is Rejected.
C6_RejectedBelowSix ==
    Returned("bucket_from_score") /\ call.arg < 6 => call.ret.v = "Rejected"

\* C6, amended: for every integer score with score < 4, bucket_from_score
\* returns Rejected.
C6_RejectedBelowFour ==
    Returned("bucket_from_score") /\ call.arg < 4 => call.ret.v = "Rejected"

C6_Witness ==
    /\ Returned("bucket_from_score")
    /\ call.arg = 3
    /\ call.ret.v = "Rejected"

-----------------------------------------------------------------------------
(* The rule engine: rule_signals *)

\* A field of a structured record holds what the record's shape allows:
\* skills a sequence of strings, projects a sequence of strings or of
\* {title, description} pairs, education a text, github a string or a flag.
IsStrList(x) == x.t = "list" /\ \A i \in 1 .. Len(x.v) : x.v[i].t = "str"

IsProject(p) ==
    \/ p.t = "str"
    \/ /\ p.t = "dict"
       /\ DOMAIN p.v \subseteq {"title", "description"}
       /\ \A k \in DOMAIN p.v : p.v[k].t = "str"

WellTyped(k, x) ==
    CASE k = "skills" -> IsStrList(x)
      [] k = "projects" -> x.t = "list" /\ \A i \in 1 .. Len(x.v) : IsProject(x.v[i])
      [] k = "education" -> x.t = "str"
      [] k = "github" -> x.t \in {"str", "bool"}

Accepted(x) ==
    \/ x.t = "str"
    \/ x.t = "dict" /\ \A k \in DOMAIN x.v : WellTyped(k, x.v[k])

\* C3: for every raw text and every structured record with any subset of its
\* fields, rule_signals returns a mapping with exactly the seven signal keys,
\* each value a boolean.
C3_ClosedBooleanKeySet ==
    Returned("rule_signals") /\ Accepted(call.arg) =>
        /\ call.ret.ok
        /\ DOMAIN call.ret.v = SignalKeys
        /\ \A k \in SignalKeys : call.ret.v[k] \in BOOLEAN

C3_Witness ==
    /\ Returned("rule_signals")
    /\ call.arg.t = "dict"
    /\ DOMAIN call.arg.v = {"education"}
    /\ Accepted(call.arg)
    /\ DOMAIN call.ret.v = SignalKeys

\* C4: for a structured record, has_github is true exactly when the github
\* field is present and truthy, whatever the other fields hold.
C4_GithubFromField ==
    Returned("rule_signals") /\ call.arg.t = "dict" /\ call.ret.ok =>
        call.ret.v.has_github =
            ("github" \in DOMAIN call.arg.v /\ Truthy(call.arg.v.github))

\* The text of a record's education field
EducationText(d) == IF "education" \in DOMAIN d THEN Str(d.education) ELSE ""

HasDegreePattern(text) == \E p \in degree_patterns : In(p, Lower(text))

\* C5: for a structured record, has_ai_degree is true exactly when a degree
\* pattern occurs in the education text; a pattern that occurs only in skills
\* or projects does not set it.
C5_DegreeFromEducation ==
    Returned("rule_signals") /\ call.arg.t = "dict" /\ call.ret.ok =>
        call.ret.v.has_ai_degree = HasDegreePattern(EducationText(call.arg.v))

\* C7: given None, or any value that is neither a text nor a structured
\* record, rule_signals ends in an error and returns no signal mapping.
C7_UnusableInputRaises ==
    Returned("rule_signals") /\ call.arg.t \notin {"str", "dict"} => ~call.ret.ok

\* A record whose skills, projects and education are each absent, null, or of
\* the type the record's shape allows
NullOrTyped(d) ==
    \A k \in DOMAIN d : k = "github" \/ d[k].t = "none" \/ WellTyped(k, d[k])

\* The record with its null fields left out
WithoutNulls(d) == [k \in {f \in DOMAIN d : d[f].t # "none"} |-> d[k]]

\* C8: a structured record whose skills, projects or education is empty,
\* missing or null never makes rule_signals raise; the field counts as empty
\* text, so the signals are those of the record without it.
C8_AbsentFieldsNeverRaise ==
    Returned("rule_signals") /\ call.arg.t = "dict" /\ NullOrTyped(call.arg.v) =>
        /\ call.ret.ok
        /\ call.ret.v = rule_signals(PyDict(WithoutNulls(call.arg.v))).v

-----------------------------------------------------------------------------
(* The /parse handler *)

Served == last.upload # 0

LastUpload == Uploads[last.upload]
LastReply == LlmReplies[last.reply]

\* The message holds one object, with at most plain text around it.
HoldsOneObject(content) ==
    \E i \in 1 .. (Len(content) - 2) :
        /\ content[i].c = "{"
        /\ content[i + 1].c = "members"
        /\ content[i + 2].c = "}"
        /\ \A j \in (1 .. Len(content)) \ {i, i + 1, i + 2} : content[j].c = "text"

\* The upstream step of the last request failed or gave malformed data: the
\* PDF could not be read, the model's service answered with an error, or its
\* message is not a well-formed JSON object.
UpstreamFailed ==
    \/ LastUpload.content = "pdf-broken"
    \/ LastReply.status # 200
    \/ ~LastReply.choices
    \/ ~HoldsOneObject(LastReply.content)

ScoringSteps == {"rule_signals", "rule_score", "bucket_from_score"}

Ran(step) == \E i \in 1 .. Len(last.log) : last.log[i] = step

\* C9: a /parse request whose upstream step fails or yields malformed data
\* ends with an error response, and none of rule_signals, rule_score,
\* bucket_from_score runs in it.
C9_NoScoringOnUpstreamFailure ==
    Served /\ UpstreamFailed =>
        /\ last.resp.status = 500
        /\ \A step \in ScoringSteps : ~Ran(step)

C9_Witness ==
    /\ Served
    /\ LastReply.status = 200
    /\ LastReply.choices
    /\ ~HoldsOneObject(LastReply.content)
    /\ Ran("json.loads")
    /\ last.resp.status = 500
    /\ candidates # {}

\* C10: no two candidate rows share a file_hash or a non-null primary_email;
\* a request for a document whose content hash is already stored inserts no
\* candidate row and, when it completes, answers with the id of the stored
\* candidate.
C10_UniqueCandidates ==
    /\ \A c1, c2 \in candidates :
          c1 # c2 =>
              /\ c1.id # c2.id
              /\ c1.file_hash # c2.file_hash
              /\ c1.primary_email.t = "none"
                 \/ c2.primary_email.t = "none"
                 \/ c1.primary_email.v # c2.primary_email.v
    /\ Served =>
          \A c \in last.before :
              c.file_hash = Md5(LastUpload.content) =>
                  /\ candidates = last.before
                  /\ last.resp.status = 200 => last.resp.candidate_id = c.id

C10_Witness ==
    /\ Served
    /\ LastUpload.content = "pdf-bob-crafted"
    /\ \E c \in last.before : c.file_hash = "h2" /\ c.cv_file_name = "temp_f1.pdf"
    /\ last.resp.status = 200
    /\ Cardinality(candidates) = 1

-----------------------------------------------------------------------------
(* The evaluations table *)

EvaluationsOf(rows, cid) == {e \in rows : e.candidate_id = cid}

\* The object the model's message of the last request spells out
LastData ==
    LET at == CHOOSE i \in 1 .. Len(LastReply.content) :
                  LastReply.content[i].c = "members"
    IN  LlmData[LastReply.content[at].d]

\* The bucket and the confidence (in hundredths) of a score, by the thresholds
\* 7 and 4 and the maximum of 10
BucketOf(score) ==
    IF score >= 7 THEN "Selected" ELSE IF score >= 4 THEN "Review" ELSE "Rejected"

HundredthsOf(score) == IF score >= 10 THEN 100 ELSE score * 10

\* C11: every candidate that has been evaluated has exactly one evaluations
\* row, and that row holds the bucket and confidence computed by the most
\* recent completed /parse for that candidate: a completed request leaves its
\* candidate exactly one row, with the bucket and confidence of the score of
\* its own data, and leaves the rows of the other candidates as they were; a
\* failed request leaves every row as it was.
C11_OneCurrentEvaluation ==
    /\ \A e \in evaluations :
          /\ \E c \in candidates : c.id = e.candidate_id
          /\ EvaluationsOf(evaluations, e.candidate_id) = {e}
    /\ Served /\ last.resp.status = 200 =>
          LET cid == last.resp.candidate_id
              score == CanonicalScore(rule_signals(PyDict(LastData)).v)
          IN  /\ \E e \in evaluations :
                    /\ EvaluationsOf(evaluations, cid) = {e}
                    /\ e.bucket = BucketOf(score)
                    /\ e.confidence = HundredthsOf(score)
              /\ \A other \in {c.id : c \in candidates} \ {cid} :
                    EvaluationsOf(evaluations, other) =
                        EvaluationsOf(last.evalsBefore, other)
    /\ Served /\ last.resp.status # 200 => evaluations = last.evalsBefore

\* The same document is uploaded again and scores differently: the candidate's
\* only row is the new one.
C11_Witness ==
    /\ Served
    /\ last.resp.status = 200
    /\ \E old \in last.evalsBefore :
          /\ old.candidate_id = last.resp.candidate_id
          /\ old.bucket = "Selected"
          /\ \E new \in evaluations :
                /\ EvaluationsOf(evaluations, old.candidate_id) = {new}
                /\ new.bucket = "Rejected"
                /\ new.id # old.id

====
